---- MODULE Spec2Model ----
(***************************************************************************)
(* Model of the CrowdSec bouncer middleware (bouncer.go): construction     *)
(* (New), the request path (ServeHTTP, handleRemediation,                  *)
(* handleNoStreamCache), the refresh cycle (handleStreamTicker,            *)
(* handleStreamCache, startTicker) and the decision-source client          *)
(* (crowdsecQuery, getToken).                                              *)
(*                                                                         *)
(* Time is discrete.  A cache entry carries its remaining time to live;    *)
(* Advance lets one second pass.  The decision source, the cache backend   *)
(* and the host are the environment: their answers are inputs of the       *)
(* actions.                                                                *)
(***************************************************************************)
EXTENDS Integers, Sequences, FiniteSets, TLC

\* ---------------------------------------------------------------- bounds
\* configured update interval, in seconds (config.UpdateIntervalSeconds)
UpdateInterval == 2
\* configured ceiling of a LiveLookup cache entry (config.DefaultDecisionSeconds)
DefaultDecisionTimeout == 1
\* longest duration of a decision of a stream body, in seconds
MaxDuration == 1
\* token renewals one crowdsecQuery invocation may make before the decision
\* source stops answering 401
MaxRenewals == 2
\* longest `new` / `deleted` list of a stream body in Spec and SpecEngine
MaxStream == 1
\* longest decision list of a LiveLookup answer
MaxDecisions == 2
\* longest `new` / `deleted` list of a stream body in SpecApply
MaxLen == 2

\* ------------------------------------------------------ program constants
NoneMode == "none"
LiveMode == "live"
StreamMode == "stream"
AloneMode == "alone"
Modes == {NoneMode, LiveMode, StreamMode, AloneMode}

BannedValue == "banned"
NoBannedValue == "none"
CaptchaValue == "captcha"
CacheMiss == "cache:miss"
CacheError == "cache:error"
cacheTimeoutKey == "updated"

crowdsecLapiRoute == "v1/decisions"
crowdsecStreamRoute == "decisions/stream"
crowdsecCapiLogin == "v2/watchers/login"

\* what a request ends with: rw.WriteHeader(http.StatusForbidden), the
\* challenge page of the captcha client, or bouncer.next.ServeHTTP
Forbidden == "403"
Challenge == "challenge"
Next_ == "next"
StatusOK == 200
StatusUnauthorized == 401
StatusServerError == 500
\* no response at all: httpClient.Do returned an error
TransportError == 0
Statuses == {StatusOK, StatusUnauthorized, StatusServerError, TransportError}

\* ------------------------------------------------------------- the actors
Bouncers == {"b1", "b2"}
Workers == {"w1", "w2"}
Tasks == Bouncers \cup Workers
Reqs == {"r1"}
\* ipT is inside the trusted-client set, ipA is not
IPs == {"ipA", "ipT"}
TrustedIPs == {"ipT"}
Keys == IPs \cup {cacheTimeoutKey}
\* the actors are named in the order they start
Before(actor) ==
  IF actor = "b2" THEN {"b1"} ELSE IF actor = "w2" THEN {"w1"} ELSE {}

VARIABLES
  config,                   \* the configuration every New is called with
  isStartup,                \* package variable isStartup
  isCrowdsecStreamHealthy,  \* package variable isCrowdsecStreamHealthy
  ticker,                   \* package variable ticker: TRUE iff ticker != nil
  cache,                    \* the decision cache, sentinel included
  boot,                     \* per bouncer: where its New call stands
  crowdsecKey,              \* per bouncer: bouncer.crowdsecKey
  tickers,                  \* per bouncer: seconds to the next tick of the
                            \* ticker its New started, -1 if none
  task,                     \* per task: the refresh cycle (or login) it runs
  lastCycle,                \* how the cycle that returned last ended
  lastFetch,                \* how the stream fetch that returned last ended
  req                       \* per request slot: the request being served

vars == <<config, isStartup, isCrowdsecStreamHealthy, ticker, cache, boot,
          crowdsecKey, tickers, task, lastCycle, lastFetch, req>>

\* ------------------------------------------------------------- the cache
NoEntry == [val |-> CacheMiss, ttl |-> 0]

\* cacheClient.Set: an entry whose ttl is not positive is expired at once
Set(c, key, value, ttl) ==
  [c EXCEPT ![key] = IF ttl > 0 THEN [val |-> value, ttl |-> ttl] ELSE NoEntry]

\* cacheClient.Delete
Delete(c, key) == [c EXCEPT ![key] = NoEntry]

\* cacheClient.Get: the value, CacheMiss, or another error of the backend
Get(c, key, backendFails) ==
  IF backendFails THEN CacheError
  ELSE IF c[key] = NoEntry THEN CacheMiss
  ELSE c[key].val

\* one second passes in the cache: every ttl shrinks, an entry at 0 is gone
Expire(c) ==
  [k \in Keys |->
     IF c[k] = NoEntry \/ c[k].ttl <= 1 THEN NoEntry
     ELSE [c[k] EXCEPT !.ttl = c[k].ttl - 1]]

\* ------------------------------------------------------------ durations
\* a duration string: a number and a unit; unit "x" does not parse
Duration(n, unit) == [n |-> n, unit |-> unit]

\* time.ParseDuration: ok, and the duration in milliseconds
ParseDuration(d) ==
  IF d.unit = "h" THEN [ok |-> TRUE, ms |-> d.n * 3600 * 1000]
  ELSE IF d.unit = "s" THEN [ok |-> TRUE, ms |-> d.n * 1000]
  ELSE IF d.unit = "ms" THEN [ok |-> TRUE, ms |-> d.n]
  ELSE [ok |-> FALSE, ms |-> 0]

\* int64(duration.Seconds()): truncation towards zero
Seconds(p) == IF p.ms >= 0 THEN p.ms \div 1000 ELSE -((-p.ms) \div 1000)

\* ------------------------------------------------- decision-source client
LoginBodies == {"token", "rejected", "garbage"}

\* getToken that returns no error for a login the server rejected
getTokenIgnoresCode(body) ==
  IF body = "garbage" THEN [err |-> TRUE, store |-> FALSE, unhealthy |-> TRUE]
  ELSE [err |-> FALSE, store |-> body = "token", unhealthy |-> FALSE]

\* getToken, from the body of the login answer on: the token is stored when
\* login.Code is 200 and a token came; a body that does not decode also
\* marks the stream unhealthy
getToken(body) ==
  IF body = "garbage" THEN [err |-> TRUE, store |-> FALSE, unhealthy |-> TRUE]
  ELSE IF body = "token" THEN [err |-> FALSE, store |-> TRUE, unhealthy |-> FALSE]
  ELSE [err |-> TRUE, store |-> FALSE, unhealthy |-> FALSE]

Frame(url, isPost) == [url |-> url, isPost |-> isPost]

\* does crowdsecQuery answer this status by renewing the token
Renews(m, status) == status = StatusUnauthorized /\ m = AloneMode

\* crowdsecQuery, one HTTP exchange of its innermost invocation.  stack holds
\* the invocations in progress, the innermost last; every invocation above
\* the first was made by a getToken.  ret: "call" another exchange follows,
\* "body" the first invocation returns the body, "error" it returns an error.
crowdsecQuery(m, stack, status, login) ==
  LET fail(u) == [stack |-> <<>>, ret |-> "error", store |-> FALSE, unhealthy |-> u]
  IN
  IF status = TransportError THEN fail(FALSE)
  ELSE IF Renews(m, status)
    THEN [stack |-> Append(stack, Frame(crowdsecCapiLogin, TRUE)),
          ret |-> "call", store |-> FALSE, unhealthy |-> FALSE]
  ELSE IF status # StatusOK THEN fail(FALSE)
  ELSE IF Len(stack) = 1
    THEN [stack |-> <<>>, ret |-> "body", store |-> FALSE, unhealthy |-> FALSE]
  ELSE LET tok == getToken(login)
           below == stack[Len(stack) - 1]
       IN IF tok.err THEN fail(tok.unhealthy)
          ELSE [stack |-> Append(SubSeq(stack, 1, Len(stack) - 2),
                                 Frame(below.url, FALSE)),
                ret |-> "call", store |-> tok.store, unhealthy |-> FALSE]

\* --------------------------------------------------------------- records
NoBody == [new |-> <<>>, deleted |-> <<>>]

IdleTask ==
  [pc |-> "idle", b |-> "-", stack |-> <<>>, calls |-> 0, logins |-> 0,
   startup |-> FALSE, body |-> NoBody]

\* a task that enters the code at pc on behalf of bouncer b
StartTask(b, pc, stack) ==
  [pc |-> pc, b |-> b, stack |-> stack, calls |-> 0, logins |-> 0,
   startup |-> FALSE, body |-> NoBody]

\* the record of a task whose cycle returned: New goes on after it, the
\* goroutine of a tick ends
Finished(t) ==
  IF t \in Bouncers THEN [IdleTask EXCEPT !.pc = "done", !.b = task[t].b]
  ELSE IdleTask

\* what handleRemediation read of the captcha client and of the request
NoChallenge ==
  [valid |-> TRUE, fallback |-> "-", cookie |-> FALSE, favicon |-> FALSE]

IdleReq ==
  [pc |-> "idle", ip |-> "-", trust |-> "-", got |-> "-", outcome |-> "-",
   queries |-> 0, res |-> "-", sel |-> "-", first |-> "-",
   seen |-> NoChallenge]

Unborn == [pc |-> "unborn", handler |-> FALSE, err |-> FALSE]

\* ------------------------------------------------------------------ Init
\* a configuration, and the scenario around it: instances are the New calls
\* the host makes, workers the goroutines the tickers may have running,
\* renewals the 401 answers the decision source gives one crowdsecQuery
\* invocation to renew its token on
Configs ==
  [mode : Modes, enabled : BOOLEAN, instances : SUBSET Bouncers,
   workers : SUBSET Workers, renewals : 0..MaxRenewals]

\* the state before the first New, in any of the configs
Boot(configs) ==
  /\ config \in configs
  /\ isStartup = TRUE
  /\ isCrowdsecStreamHealthy = TRUE
  /\ ticker = FALSE
  /\ cache = [k \in Keys |-> NoEntry]
  /\ boot = [b \in Bouncers |-> Unborn]
  /\ crowdsecKey = [b \in Bouncers |-> "config"]
  /\ tickers = [b \in Bouncers |-> -1]
  /\ task = [t \in Tasks |-> IdleTask]
  /\ lastCycle = "none"
  /\ lastFetch = "none"
  /\ req = [r \in Reqs |-> IdleReq]

\* one middleware instance, one tick-spawned cycle at a time, any mode
Init ==
  Boot({c \in Configs : /\ c.instances = {"b1"}
                        /\ c.workers = {"w1"}
                        /\ c.renewals = MaxRenewals})

\* the mode test without AloneMode
IsStreamingStreamOnly(m) == m = StreamMode

IsStreaming(m) == m = StreamMode \/ m = AloneMode

\* ------------------------------------------------------------------- New
\* what the setup steps of New find: all fine, ValidateParams fails,
\* GetTLSConfigCrowdsec fails, or no LAPI key and no client certificate
Setups == {"ok", "params", "tls", "nokey"}

\* New up to its return or to the start of the engine: the handler and the
\* error it returns, or the place it goes on at
NewSetup(m, setup, tickerSet) ==
  IF setup = "params" THEN [pc |-> "failed", handler |-> FALSE, err |-> TRUE]
  ELSE IF m # AloneMode /\ setup = "tls"
    THEN [pc |-> "failed", handler |-> FALSE, err |-> TRUE]
  ELSE IF m # AloneMode /\ setup = "nokey"
    \* return nil, err: err is the nil error of GetTLSConfigCrowdsec
    THEN [pc |-> "failed", handler |-> FALSE, err |-> FALSE]
  ELSE IF IsStreaming(m) /\ ~tickerSet
    THEN [pc |-> IF m = AloneMode THEN "token" ELSE "cycle",
          handler |-> FALSE, err |-> FALSE]
  ELSE [pc |-> "ready", handler |-> TRUE, err |-> FALSE]

\* the New calls are named in the order they start
NewStart(b) ==
  /\ b \in config.instances
  /\ boot[b].pc = "unborn"
  /\ \A a \in Before(b) : boot[a].pc # "unborn"
  /\ \E setup \in Setups :
       LET n == NewSetup(config.mode, setup, ticker) IN
       /\ boot' = [boot EXCEPT ![b] = n]
       /\ task' = [task EXCEPT ![b] =
            IF n.pc = "token"
              THEN StartTask(b, "token", <<Frame(crowdsecCapiLogin, TRUE)>>)
            ELSE IF n.pc = "cycle" THEN StartTask(b, "check", <<>>)
            ELSE @]
  /\ UNCHANGED <<config, isStartup, isCrowdsecStreamHealthy, ticker, cache,
                 crowdsecKey, tickers, lastCycle, lastFetch, req>>

\* may the decision source answer with this status: a 401 that makes
\* crowdsecQuery renew the token is answered at most config.renewals times
MayAnswer(t, status) ==
  Renews(config.mode, status) => task[t].logins < config.renewals

\* the exchange counters of a task after one more exchange
Counted(t, status) ==
  [task[t] EXCEPT !.calls = @ + 1,
                  !.logins = IF Renews(config.mode, status) THEN @ + 1 ELSE @]

\* New in CentralPoll mode: getToken(bouncer), one HTTP exchange at a time
NewToken(b) ==
  /\ boot[b].pc = "token"
  /\ task[b].pc = "token"
  /\ \E status \in Statuses :
       /\ MayAnswer(b, status)
       /\ \E login \in (IF status = StatusOK THEN LoginBodies ELSE {"token"}) :
          LET q == crowdsecQuery(config.mode, task[b].stack, status, login)
              tok == getToken(login)
              c == Counted(b, status)
          IN
          IF q.ret = "call" THEN
            /\ task' = [task EXCEPT ![b] = [c EXCEPT !.stack = q.stack]]
            /\ crowdsecKey' = IF q.store THEN [crowdsecKey EXCEPT ![b] = "token"]
                              ELSE crowdsecKey
            /\ UNCHANGED <<boot, isCrowdsecStreamHealthy>>
          ELSE IF q.ret = "body" /\ ~tok.err THEN
            /\ task' = [task EXCEPT ![b] = StartTask(b, "check", <<>>)]
            /\ crowdsecKey' = IF tok.store THEN [crowdsecKey EXCEPT ![b] = "token"]
                              ELSE crowdsecKey
            /\ boot' = [boot EXCEPT ![b].pc = "cycle"]
            /\ UNCHANGED isCrowdsecStreamHealthy
          ELSE
            /\ task' = [task EXCEPT ![b] = Finished(b)]
            /\ boot' = [boot EXCEPT ![b] =
                          [pc |-> "failed", handler |-> FALSE, err |-> TRUE]]
            /\ isCrowdsecStreamHealthy' =
                 IF (q.ret = "body" /\ tok.unhealthy) \/ q.unhealthy
                   THEN FALSE ELSE isCrowdsecStreamHealthy
            /\ UNCHANGED crowdsecKey
  /\ UNCHANGED <<config, isStartup, ticker, cache, tickers, lastCycle,
                 lastFetch, req>>

\* New after its first handleStreamTicker returned: isStartup = false and
\* ticker = startTicker(...)
NewFinish(b) ==
  /\ boot[b].pc = "cycle"
  /\ task[b].pc = "done"
  /\ isStartup' = FALSE
  /\ ticker' = TRUE
  /\ tickers' = [tickers EXCEPT ![b] = UpdateInterval]
  /\ boot' = [boot EXCEPT ![b] = [pc |-> "ready", handler |-> TRUE, err |-> FALSE]]
  /\ UNCHANGED <<config, isCrowdsecStreamHealthy, cache, crowdsecKey, task,
                 lastCycle, lastFetch, req>>

\* ---------------------------------------------------------- stream bodies
Types == {"ban", "captcha", "throttle"}

\* the decisions of a stream body: a type, a subject value, a duration
StreamDurations == {Duration(MaxDuration, "s"), Duration(1, "x")}
Decisions == [type : Types, value : IPs, duration : StreamDurations]

\* of a deleted decision only the value is read
DeletedDecisions ==
  {d \in Decisions : d.type = "ban" /\ d.duration.unit = "s"}

SeqsUpTo(S, n) == UNION {[1..k -> S] : k \in 0..n}

StreamBodies(n) ==
  [new : SeqsUpTo(Decisions, n), deleted : SeqsUpTo(DeletedDecisions, n)]

\* the stream bodies of SpecEngine: bans of ipA, and their removal
EngineBodies ==
  {s \in StreamBodies(MaxStream) :
     /\ \A i \in 1..Len(s.new) :
          /\ s.new[i].value = "ipA"
          /\ s.new[i].type = "ban"
          /\ s.new[i].duration.unit = "s"
     /\ \A i \in 1..Len(s.deleted) : s.deleted[i].value = "ipA"}

\* the cache value handleStreamCache writes for a decision type: an unknown
\* type leaves `var value string` at its zero value
StreamValue(type) ==
  IF type = "ban" THEN BannedValue
  ELSE IF type = "captcha" THEN CaptchaValue
  ELSE ""

\* for _, decision := range stream.New: a decision whose duration does not
\* parse is skipped
RECURSIVE ApplyNew(_, _)
ApplyNew(c, new) ==
  IF new = <<>> THEN c
  ELSE LET d == Head(new)
           p == ParseDuration(d.duration)
       IN ApplyNew(IF p.ok THEN Set(c, d.value, StreamValue(d.type), Seconds(p))
                   ELSE c,
                   Tail(new))

\* for _, decision := range stream.Deleted
RECURSIVE ApplyDeleted(_, _)
ApplyDeleted(c, deleted) ==
  IF deleted = <<>> THEN c
  ELSE ApplyDeleted(Delete(c, Head(deleted).value), Tail(deleted))

\* the two loops of handleStreamCache in the other order
StreamApplyDeletesFirst(c, stream) ==
  ApplyNew(ApplyDeleted(c, stream.deleted), stream.new)

\* the two loops of handleStreamCache, in their order
StreamApply(c, stream) == ApplyDeleted(ApplyNew(c, stream.new), stream.deleted)

\* ------------------------------------------------------- the refresh cycle
\* SentinelCheck that does not see the sentinel
SentinelCheckBlind(got) == IF got = CacheError THEN "error" ELSE "proceed"

\* handleStreamCache on the answer of Get(cacheTimeoutKey)
SentinelCheck(got) ==
  IF got = CacheMiss THEN "proceed"
  ELSE IF got = CacheError THEN "error"
  ELSE "skip"

\* the ttl the sentinel is written with
SentinelTTL == UpdateInterval - 1

\* handleStreamTicker: the health state after handleStreamCache returned
handleStreamTicker(err) == ~err

\* the startup hint of the stream route
StartupHint(healthy, startup) == ~healthy \/ startup

\* handleStreamTicker -> handleStreamCache up to the sentinel check
CycleCheck(t) ==
  /\ task[t].pc = "check"
  /\ \E backendFails \in BOOLEAN :
       LET verdict == SentinelCheck(Get(cache, cacheTimeoutKey, backendFails)) IN
       IF verdict = "proceed" THEN
         /\ task' = [task EXCEPT ![t].pc = "write"]
         /\ UNCHANGED <<isCrowdsecStreamHealthy, lastCycle>>
       ELSE
         /\ task' = [task EXCEPT ![t] = Finished(t)]
         /\ lastCycle' = IF verdict = "skip" THEN "skipped" ELSE "failed"
         /\ isCrowdsecStreamHealthy' = handleStreamTicker(verdict = "error")
  /\ UNCHANGED <<config, isStartup, ticker, cache, boot, crowdsecKey,
                 tickers, lastFetch, req>>

\* handleStreamCache: the sentinel is written and the stream route is built
CycleWrite(t) ==
  /\ task[t].pc = "write"
  /\ cache' = Set(cache, cacheTimeoutKey, NoBannedValue, SentinelTTL)
  /\ task' = [task EXCEPT ![t].pc = "fetch",
                          ![t].startup =
                             StartupHint(isCrowdsecStreamHealthy, isStartup),
                          ![t].stack = <<Frame(crowdsecStreamRoute, FALSE)>>,
                          ![t].calls = 0,
                          ![t].logins = 0]
  /\ UNCHANGED <<config, isStartup, isCrowdsecStreamHealthy, ticker, boot,
                 crowdsecKey, tickers, lastCycle, lastFetch, req>>

\* handleStreamCache from crowdsecQuery of the stream route on, one HTTP
\* exchange at a time; the exchange that brings the body also decodes it and
\* applies it to the cache
CycleFetch(t, bodies) ==
  /\ task[t].pc = "fetch"
  /\ \E status \in Statuses :
       /\ MayAnswer(t, status)
       /\ \E login \in (IF status = StatusOK /\ Len(task[t].stack) > 1
                        THEN LoginBodies ELSE {"token"}) :
          LET q == crowdsecQuery(config.mode, task[t].stack, status, login)
              c == Counted(t, status)
          IN
          IF q.ret = "call" THEN
            /\ task' = [task EXCEPT ![t] = [c EXCEPT !.stack = q.stack]]
            /\ crowdsecKey' = IF q.store
                                THEN [crowdsecKey EXCEPT ![task[t].b] = "token"]
                                ELSE crowdsecKey
            /\ UNCHANGED <<isCrowdsecStreamHealthy, cache, lastCycle, lastFetch>>
          ELSE IF q.ret = "body" THEN
            /\ \E decodes \in BOOLEAN :
                 IF decodes THEN
                   /\ \E body \in bodies : cache' = StreamApply(cache, body)
                   /\ task' = [task EXCEPT ![t] = Finished(t)]
                   /\ lastCycle' = "updated"
                   /\ lastFetch' = "ok"
                   /\ isCrowdsecStreamHealthy' = handleStreamTicker(FALSE)
                 ELSE
                   /\ task' = [task EXCEPT ![t] = Finished(t)]
                   /\ lastCycle' = "failed"
                   /\ lastFetch' = "failed"
                   /\ isCrowdsecStreamHealthy' = handleStreamTicker(TRUE)
                   /\ UNCHANGED cache
            /\ UNCHANGED crowdsecKey
          ELSE
            /\ task' = [task EXCEPT ![t] = Finished(t)]
            /\ lastCycle' = "failed"
            /\ lastFetch' = "failed"
            /\ isCrowdsecStreamHealthy' = handleStreamTicker(TRUE)
            /\ UNCHANGED <<crowdsecKey, cache>>
  /\ UNCHANGED <<config, isStartup, ticker, boot, tickers, req>>

\* handleStreamCache from the decoded stream on: the two loops, and the
\* return through handleStreamTicker; the task record keeps the stream it
\* applied
CycleApply(t) ==
  /\ task[t].pc = "apply"
  /\ cache' = StreamApply(cache, task[t].body)
  /\ task' = [task EXCEPT ![t] = [Finished(t) EXCEPT !.body = task[t].body]]
  /\ lastCycle' = "updated"
  /\ lastFetch' = "ok"
  /\ isCrowdsecStreamHealthy' = handleStreamTicker(FALSE)
  /\ UNCHANGED <<config, isStartup, ticker, boot, crowdsecKey, tickers, req>>

\* startTicker: a tick of the ticker bouncer b started spawns `go work()`
Tick(b, w) ==
  /\ tickers[b] = 0
  /\ w \in config.workers
  /\ task[w].pc = "idle"
  /\ \A v \in Before(w) : task[v].pc # "idle"
  /\ tickers' = [tickers EXCEPT ![b] = UpdateInterval]
  /\ task' = [task EXCEPT ![w] = StartTask(b, "check", <<>>)]
  /\ UNCHANGED <<config, isStartup, isCrowdsecStreamHealthy, ticker, cache,
                 boot, crowdsecKey, lastCycle, lastFetch, req>>

\* one second passes
Advance ==
  /\ cache' = Expire(cache)
  /\ tickers' = [b \in Bouncers |->
                   IF tickers[b] > 0 THEN tickers[b] - 1 ELSE tickers[b]]
  /\ UNCHANGED <<config, isStartup, isCrowdsecStreamHealthy, ticker, boot,
                 crowdsecKey, task, lastCycle, lastFetch, req>>

\* ------------------------------------------------------- the request path
\* what resolving the client address can fail with: ip.GetRemoteIP, or
\* clientPoolStrategy.Checker.Contains
TrustErrors == {"none", "remote", "contains"}

\* Admission without the trusted-client short cut: a trusted address is
\* evaluated like any other
AdmissionNoTrust(enabled, trustErr, ip) ==
  IF ~enabled THEN Next_
  ELSE IF trustErr # "none" THEN Forbidden
  ELSE "evaluate"

\* ServeHTTP up to the trusted-client short cut: the request ends (next or
\* 403) or goes on to be evaluated
Admission(enabled, trustErr, ip) ==
  IF ~enabled THEN Next_
  ELSE IF trustErr # "none" THEN Forbidden
  ELSE IF ip \in TrustedIPs THEN Next_
  ELSE "evaluate"

\* Lookup that takes every error of the cache for a miss
LookupErrorIsMiss(got) ==
  IF got = CacheError \/ got = CacheMiss THEN "resolve" ELSE "dispatch"

\* ServeHTTP on the answer of cacheClient.Get(remoteIP)
Lookup(got) ==
  IF got = CacheError THEN Forbidden
  ELSE IF got = CacheMiss THEN "resolve"
  ELSE "dispatch"

\* the captcha client (Valid, FallbackRemediation) and the request (a valid
\* cookie, the favicon path) as handleRemediation finds them
Challenges ==
  [valid : BOOLEAN, fallback : {"ban", "captcha"}, cookie : BOOLEAN,
   favicon : BOOLEAN]

\* handleRemediation reads them for a captcha remediation only
ChallengesOf(remediation) ==
  IF remediation = CaptchaValue THEN Challenges ELSE {NoChallenge}

\* handleRemediation without its ban case: a banned remediation falls through
\* to the next handler
handleRemediationNoBan(remediation, ch) ==
  IF remediation = CaptchaValue /\ (ch.valid \/ ch.fallback # "ban")
     /\ ~ch.cookie /\ ~ch.favicon
    THEN Challenge
    ELSE Next_

\* handleRemediation without the fallback of an invalid captcha client
handleRemediationNoFallback(remediation, ch) ==
  IF remediation = BannedValue THEN Forbidden
  ELSE IF remediation = CaptchaValue /\ ~ch.cookie /\ ~ch.favicon THEN Challenge
  ELSE Next_

\* handleRemediation
handleRemediation(remediation, ch) ==
  LET r == IF remediation = CaptchaValue /\ ~ch.valid /\ ch.fallback = "ban"
             THEN BannedValue ELSE remediation
  IN IF r = BannedValue THEN Forbidden
     ELSE IF r = CaptchaValue /\ ~ch.cookie /\ ~ch.favicon THEN Challenge
     ELSE Next_

\* StreamDefault that lets a cache miss pass whatever the health state
StreamDefaultOpen(healthy) == IF healthy THEN Next_ ELSE Next_

\* ServeHTTP in Streaming / CentralPoll mode after a cache miss
StreamDefault(healthy) == IF healthy THEN Next_ ELSE Forbidden

\* the request record of a request that ended
Ended(r, outcome) == [r EXCEPT !.pc = "done", !.outcome = outcome]

\* ServeHTTP from its entry to its end, or to the point where it reads the
\* health state or queries the decision source
ReqStart(r) ==
  /\ req[r].pc \in {"idle", "done"}
  /\ \E b \in Bouncers : boot[b].handler
  /\ \E ip \in IPs, trustErr \in TrustErrors, backendFails \in BOOLEAN :
       LET adm == Admission(config.enabled, trustErr, ip)
           fresh == [IdleReq EXCEPT !.ip = ip,
                       !.trust = IF trustErr # "none" THEN trustErr
                                 ELSE IF ip \in TrustedIPs THEN "trusted"
                                 ELSE "untrusted"]
           got == Get(cache, ip, backendFails)
           read == [fresh EXCEPT !.got = got]
           resolve(q) ==
             [q EXCEPT !.pc = IF IsStreaming(config.mode) THEN "health"
                              ELSE "query"]
           dispatched == adm = "evaluate" /\ config.mode # NoneMode
                         /\ Lookup(got) = "dispatch"
       IN
       \E ch \in (IF dispatched THEN ChallengesOf(got) ELSE {NoChallenge}) :
         req' = [req EXCEPT ![r] =
           IF adm # "evaluate" THEN Ended(fresh, adm)
           ELSE IF config.mode = NoneMode THEN resolve(fresh)
           ELSE IF Lookup(got) = Forbidden THEN Ended(read, Forbidden)
           ELSE IF Lookup(got) = "dispatch"
             THEN Ended([read EXCEPT !.seen = ch], handleRemediation(got, ch))
           ELSE resolve(read)]
  /\ UNCHANGED <<config, isStartup, isCrowdsecStreamHealthy, ticker, cache,
                 boot, crowdsecKey, tickers, task, lastCycle, lastFetch>>

\* ServeHTTP in Streaming / CentralPoll mode: the health state decides
ReqHealth(r) ==
  /\ req[r].pc = "health"
  /\ req' = [req EXCEPT ![r] =
               Ended([req[r] EXCEPT !.res = IF isCrowdsecStreamHealthy
                                            THEN "healthy" ELSE "unhealthy"],
                     StreamDefault(isCrowdsecStreamHealthy))]
  /\ UNCHANGED <<config, isStartup, isCrowdsecStreamHealthy, ticker, cache,
                 boot, crowdsecKey, tickers, task, lastCycle, lastFetch>>

\* the answers to the on-demand query: `null`, a body that does not decode,
\* or a list of decisions
LiveDurations == {Duration(4, "h"), Duration(500, "ms"), Duration(1, "x")}
LiveDecisions == [type : Types, duration : LiveDurations]

LiveBodies(n) ==
  [kind : {"null", "garbage"}, decisions : {<<>>}]
    \cup [kind : {"list"}, decisions : SeqsUpTo(LiveDecisions, n)]

\* for _, d := range decisions { decision = d; if ban { break } }
Select(decisions) ==
  LET bans == {i \in 1..Len(decisions) : decisions[i].type = "ban"} IN
  IF bans # {}
    THEN decisions[CHOOSE i \in bans : \A j \in bans : i <= j]
    ELSE decisions[Len(decisions)]

\* the cache value handleNoStreamCache writes for a decision type
LiveValue(type) ==
  IF type = "ban" THEN BannedValue
  ELSE IF type = "captcha" THEN CaptchaValue
  ELSE NoBannedValue

\* the ttl handleNoStreamCache writes: the duration, at most the default
LiveTTL(seconds) ==
  IF DefaultDecisionTimeout < seconds THEN DefaultDecisionTimeout ELSE seconds

\* handleNoStreamCache after crowdsecQuery returned (ret as in crowdsecQuery):
\* the value and the error it returns, the cache it leaves, the type of the
\* decision it selected and the type of the first decision of the list
handleNoStreamCache(m, ret, body, c, ip) ==
  LET isLiveMode == m = LiveMode
      value == NoBannedValue
      written(v, ttl) == IF isLiveMode THEN Set(c, ip, v, ttl) ELSE c
  IN
  IF ret = "error"
    THEN [value |-> value, err |-> "query", cache |-> c, sel |-> "-",
          first |-> "-"]
  ELSE IF body.kind = "null" \/ (body.kind = "list" /\ body.decisions = <<>>)
    THEN [value |-> value, err |-> "nil",
          cache |-> written(value, DefaultDecisionTimeout), sel |-> "-",
          first |-> "-"]
  ELSE IF body.kind = "garbage"
    THEN [value |-> value, err |-> "parseBody", cache |-> c, sel |-> "-",
          first |-> "-"]
  ELSE LET decision == Select(body.decisions)
           p == ParseDuration(decision.duration)
           v == IF isLiveMode THEN LiveValue(decision.type) ELSE value
       IN IF ~p.ok
            THEN [value |-> value, err |-> "parseDuration", cache |-> c,
                  sel |-> decision.type, first |-> body.decisions[1].type]
            ELSE [value |-> v, err |-> "banned",
                  cache |-> written(v, LiveTTL(Seconds(p))),
                  sel |-> decision.type, first |-> body.decisions[1].type]

\* ServeHTTP in LiveLookup / Disabled mode: handleNoStreamCache, whose error
\* is dropped, then handleRemediation
ReqQuery(r) ==
  /\ req[r].pc = "query"
  /\ \E status \in Statuses :
       \E body \in (IF status = StatusOK THEN LiveBodies(MaxDecisions)
                    ELSE {[kind |-> "null", decisions |-> <<>>]}) :
         LET q == crowdsecQuery(config.mode,
                                <<Frame(crowdsecLapiRoute, FALSE)>>,
                                status, "token")
             h == handleNoStreamCache(config.mode, q.ret, body, cache,
                                      req[r].ip)
         IN
         \E ch \in ChallengesOf(h.value) :
           /\ cache' = h.cache
           /\ req' = [req EXCEPT ![r] =
                Ended([req[r] EXCEPT !.queries = @ + 1, !.res = h.err,
                                     !.sel = h.sel, !.first = h.first,
                                     !.seen = ch],
                      handleRemediation(h.value, ch))]
  /\ UNCHANGED <<config, isStartup, isCrowdsecStreamHealthy, ticker, boot,
                 crowdsecKey, tickers, task, lastCycle, lastFetch>>

\* ------------------------------------------------------------------ Spec
Next ==
  \/ \E b \in Bouncers : NewStart(b)
  \/ \E b \in Bouncers : NewToken(b)
  \/ \E b \in Bouncers : NewFinish(b)
  \/ \E t \in Tasks : CycleCheck(t)
  \/ \E t \in Tasks : CycleWrite(t)
  \/ \E t \in Tasks : CycleFetch(t, StreamBodies(MaxStream))
  \/ \E b \in Bouncers, w \in Workers : Tick(b, w)
  \/ Advance
  \/ \E r \in Reqs : ReqStart(r)
  \/ \E r \in Reqs : ReqHealth(r)
  \/ \E r \in Reqs : ReqQuery(r)

Spec == Init /\ [][Next]_vars

\* two New calls and two tick-spawned cycles at a time, in the two modes that
\* run the engine; a token is renewed at most once per invocation and no
\* request is served
InitEngine ==
  Boot({c \in Configs : /\ IsStreaming(c.mode)
                        /\ c.enabled
                        /\ c.instances = Bouncers
                        /\ c.workers = Workers
                        /\ c.renewals = 1})

NextEngine ==
  \/ \E b \in Bouncers : NewStart(b)
  \/ \E b \in Bouncers : NewToken(b)
  \/ \E b \in Bouncers : NewFinish(b)
  \/ \E t \in Tasks : CycleCheck(t)
  \/ \E t \in Tasks : CycleWrite(t)
  \/ \E t \in Tasks : CycleFetch(t, EngineBodies)
  \/ \E b \in Bouncers, w \in Workers : Tick(b, w)
  \/ Advance

SpecEngine == InitEngine /\ [][NextEngine]_vars

\* the decision entries a cycle may find in the cache
ApplyCaches ==
  {c \in [Keys -> {NoEntry, [val |-> BannedValue, ttl |-> MaxDuration],
                   [val |-> NoBannedValue, ttl |-> SentinelTTL]}] :
     /\ c[cacheTimeoutKey] = [val |-> NoBannedValue, ttl |-> SentinelTTL]
     /\ \A ip \in IPs : c[ip].val # NoBannedValue}

\* a running Streaming instance whose tick-spawned cycle has just decoded a
\* stream body of up to MaxLen decisions per list
InitApply ==
  /\ config \in {c \in Configs : /\ c.mode = StreamMode
                                 /\ c.enabled
                                 /\ c.instances = {"b1"}
                                 /\ c.workers = {"w1"}
                                 /\ c.renewals = MaxRenewals}
  /\ isStartup = FALSE
  /\ isCrowdsecStreamHealthy = TRUE
  /\ ticker = TRUE
  /\ cache \in ApplyCaches
  /\ boot = [b \in Bouncers |->
               IF b = "b1" THEN [pc |-> "ready", handler |-> TRUE, err |-> FALSE]
               ELSE Unborn]
  /\ crowdsecKey = [b \in Bouncers |-> "config"]
  /\ tickers = [b \in Bouncers |-> IF b = "b1" THEN UpdateInterval ELSE -1]
  /\ \E stream \in StreamBodies(MaxLen) :
       task = [t \in Tasks |->
                 IF t = "w1"
                   THEN [StartTask("b1", "apply", <<>>) EXCEPT !.body = stream]
                 ELSE IF t = "b1" THEN [IdleTask EXCEPT !.pc = "done", !.b = "b1"]
                 ELSE IdleTask]
  /\ lastCycle = "none"
  /\ lastFetch = "none"
  /\ req = [r \in Reqs |-> IdleReq]

NextApply == \E t \in Tasks : CycleApply(t)

SpecApply == InitApply /\ [][NextApply]_vars

\* ---------------------------------------------------------------- claims
\* C1: for an enabled bouncer in a mode other than none, a request from an
\* address outside the trusted-client set that arrives while the cache holds
\* an unexpired banned entry for it ends at once with 403: the next handler
\* is not invoked and no query is sent to the decision source.
C1_CachedBanIsDenied ==
  [][\A r \in Reqs :
       (/\ req[r].pc \in {"idle", "done"}
        /\ req'[r] # req[r]
        /\ config.enabled
        /\ config.mode # NoneMode
        /\ req'[r].trust = "untrusted"
        /\ cache[req'[r].ip].val = BannedValue)
       => (/\ req'[r].pc = "done"
           /\ req'[r].outcome = Forbidden
           /\ req'[r].queries = 0)]_vars

\* a request that read banned from the cache and was answered 403
C1_Witness ==
  \E r \in Reqs :
    /\ req[r].pc = "done"
    /\ req[r].trust = "untrusted"
    /\ req[r].got = BannedValue
    /\ req[r].outcome = Forbidden
    /\ req[r].queries = 0

\* C2: a request whose address is inside the trusted-client set is passed to
\* the next handler, and ServeHTTP neither reads the decision cache nor
\* queries the decision source nor enters handleRemediation for it, whatever
\* the cache holds for the address, whatever the mode and the health state.
C2_TrustedPasses ==
  [][\A r \in Reqs :
       (/\ req[r].pc \in {"idle", "done"}
        /\ req'[r] # req[r]
        /\ req'[r].trust = "trusted")
       => (/\ req'[r].pc = "done"
           /\ req'[r].outcome = Next_
           /\ req'[r].got = "-"
           /\ req'[r].queries = 0
           /\ req'[r].seen = NoChallenge
           /\ cache' = cache)]_vars

\* a trusted request passed on while the cache holds a ban of its address
\* and the stream is unhealthy
C2_Witness ==
  \E r \in Reqs :
    /\ req[r].pc = "done"
    /\ req[r].trust = "trusted"
    /\ req[r].outcome = Next_
    /\ cache[req[r].ip].val = BannedValue
    /\ ~isCrowdsecStreamHealthy

\* C3: in stream or alone mode, a request from an address outside the
\* trusted-client set that misses the cache goes on to read the health state,
\* and is passed to the next handler if and only if the health state is true
\* when it is read; if it is false the request ends with 403.
C3_MissFollowsHealth ==
  [][\A r \in Reqs :
       /\ (/\ req[r].pc \in {"idle", "done"}
           /\ req'[r] # req[r]
           /\ config.enabled
           /\ IsStreaming(config.mode)
           /\ req'[r].trust = "untrusted"
           /\ req'[r].got = CacheMiss)
          => req'[r].pc = "health"
       /\ (req[r].pc = "health" /\ req'[r].pc # "health")
          => (/\ IsStreaming(config.mode)
              /\ req[r].trust = "untrusted"
              /\ req[r].got = CacheMiss
              /\ req'[r].pc = "done"
              /\ req'[r].queries = 0
              /\ (req'[r].outcome = Next_ <=> isCrowdsecStreamHealthy)
              /\ (~isCrowdsecStreamHealthy => req'[r].outcome = Forbidden))]_vars

\* a request that missed the cache while the stream was unhealthy and was
\* answered 403
C3_Witness ==
  \E r \in Reqs :
    /\ req[r].pc = "done"
    /\ IsStreaming(config.mode)
    /\ req[r].got = CacheMiss
    /\ req[r].res = "unhealthy"
    /\ req[r].outcome = Forbidden

\* C4: the health state is changed only by a refresh cycle that ran: a cycle
\* that is skipped because the sentinel is present leaves it as it was, and
\* once a cycle failed it turns true again only in the step of a cycle that
\* fetched and applied the stream.
C4_SkipKeepsHealth ==
  [][/\ \A t \in Tasks :
          (/\ task[t].pc = "check"
           /\ task'[t].pc \notin {"check", "write"}
           /\ cache[cacheTimeoutKey] # NoEntry
           /\ lastCycle' = "skipped")
          => isCrowdsecStreamHealthy' = isCrowdsecStreamHealthy
     /\ (~isCrowdsecStreamHealthy /\ isCrowdsecStreamHealthy')
          => \E t \in Tasks :
               /\ task[t].pc = "fetch"
               /\ task'[t].pc \notin {"fetch"}
               /\ lastCycle' = "updated"]_vars

\* C5: in alone mode one invocation of crowdsecQuery by a refresh cycle makes
\* at most one login attempt and at most three HTTP calls (the call, the
\* login, the retry): a second 401 ends it with an error.
C5_OneLoginOneRetry ==
  \A t \in Tasks :
    (config.mode = AloneMode /\ task[t].pc = "fetch")
      => (task[t].logins <= 1 /\ task[t].calls <= 3)

\* C6: the sentinel is written with ttl UpdateInterval - 1 before any call to
\* the decision source, and a cycle that reads the sentinel while it is
\* present ends without a stream fetch and without a write or delete on the
\* cache, also when the cycle that wrote the sentinel failed to fetch.
C6_SentinelSuppressesFetch ==
  [][\A t \in Tasks :
       /\ (task[t].pc = "write" /\ task'[t].pc # "write")
          => (/\ cache'[cacheTimeoutKey].ttl = UpdateInterval - 1
              /\ \A ip \in IPs : cache'[ip] = cache[ip]
              /\ task'[t].pc = "fetch"
              /\ task'[t].calls = 0)
       /\ (/\ task[t].pc = "check"
           /\ task'[t] # task[t]
           /\ cache[cacheTimeoutKey] # NoEntry)
          => (/\ task'[t].pc \in {"idle", "done"}
              /\ task'[t].calls = 0
              /\ cache' = cache)]_vars

\* a cycle was skipped on the sentinel while the cycle that wrote it is still
\* fetching the stream: the cache holds the sentinel and no decision
C6_Witness ==
  /\ lastCycle = "skipped"
  /\ cache[cacheTimeoutKey] # NoEntry
  /\ \A ip \in IPs : cache[ip] = NoEntry
  /\ \E t \in Tasks : task[t].pc = "fetch" /\ task[t].calls > 0

\* C7: when a stream lists a value both in `new` and in `deleted`, the cache
\* holds no entry for the value once the cycle has applied the stream (Get
\* answers CacheMiss), whatever the order of the entries inside the two lists
\* and whatever the cache held before.
C7_DeleteWins ==
  [][\A t \in Tasks :
       (task[t].pc = "apply" /\ task'[t].pc # "apply")
       => LET stream == task[t].body
              inNew == {stream.new[i].value : i \in 1..Len(stream.new)}
              inDeleted == {stream.deleted[i].value : i \in 1..Len(stream.deleted)}
          IN \A v \in inNew \cap inDeleted :
               /\ cache'[v] = NoEntry
               /\ Get(cache', v, FALSE) = CacheMiss]_vars

\* a cycle has applied a stream whose `new` list writes two values (their
\* durations parse) of which its `deleted` list names the one written last:
\* the cache holds the other value and not the deleted one
C7_Witness ==
  \E t \in Tasks :
    /\ task[t].pc = "idle"
    /\ lastCycle = "updated"
    /\ \E i, k \in 1..Len(task[t].body.new), j \in 1..Len(task[t].body.deleted) :
         /\ k < i
         /\ task[t].body.new[i].value = task[t].body.deleted[j].value
         /\ ParseDuration(task[t].body.new[i].duration).ok
         /\ cache[task[t].body.new[i].value] = NoEntry
         /\ cache[task[t].body.new[k].value].val = StreamValue(task[t].body.new[k].type)
         /\ cache[task[t].body.new[k].value].ttl = MaxDuration

\* C8: in live mode a request whose on-demand query answered a non-empty
\* decision list, one that handleNoStreamCache resolved and cached, is not
\* passed to the next handler, whatever the type of the decision selected.
C8_ResolvedIsDenied ==
  \A r \in Reqs :
    (/\ config.mode = LiveMode
     /\ req[r].pc = "done"
     /\ req[r].queries > 0
     /\ req[r].sel # "-"
     /\ req[r].res = "banned")
    => req[r].outcome # Next_

\* C9: in live mode a request whose on-demand query answered a list whose
\* selected decision is a ban ends with 403.
C9_LiveBanIsDenied ==
  \A r \in Reqs :
    (/\ config.mode = LiveMode
     /\ req[r].pc = "done"
     /\ req[r].queries > 0
     /\ req[r].sel = "ban")
    => req[r].outcome = Forbidden

\* C10: in live mode a request whose on-demand resolution ended in an error
\* (the query failed, the body did not decode, the duration of the selected
\* decision did not parse) is not passed to the next handler.
C10_UnresolvedIsDenied ==
  \A r \in Reqs :
    (/\ config.mode = LiveMode
     /\ req[r].pc = "done"
     /\ req[r].queries > 0
     /\ req[r].res \in {"query", "parseBody", "parseDuration"})
    => req[r].outcome # Next_

\* C11: on the request path of an enabled bouncer, an error of the trust
\* resolution (GetRemoteIP or Contains fails) and, in every mode but none, an
\* error of the cache lookup other than a miss each end the request with 403
\* in the step that meets it: the next handler and handleRemediation are not
\* entered and no query is sent.
C11_ErrorsFailClosed ==
  [][\A r \in Reqs :
       (/\ req[r].pc \in {"idle", "done"}
        /\ req'[r] # req[r]
        /\ config.enabled
        /\ \/ req'[r].trust \in {"remote", "contains"}
           \/ /\ config.mode # NoneMode
              /\ req'[r].trust = "untrusted"
              /\ req'[r].got = CacheError)
       => (/\ req'[r].pc = "done"
           /\ req'[r].outcome = Forbidden
           /\ req'[r].queries = 0
           /\ req'[r].seen = NoChallenge
           /\ req'[r].res = "-")]_vars

\* a request answered 403 on a cache error in a streaming mode whose health
\* state is true
C11_Witness ==
  \E r \in Reqs :
    /\ req[r].pc = "done"
    /\ IsStreaming(config.mode)
    /\ isCrowdsecStreamHealthy
    /\ req[r].trust = "untrusted"
    /\ req[r].got = CacheError
    /\ req[r].outcome = Forbidden

\* C12: however many New calls are made in stream or alone mode and however
\* they interleave, at most one of them runs the initial refresh cycle and at
\* most one ticker is started in the process.
C12_EngineStartedOnce ==
  /\ Cardinality({b \in Bouncers : tickers[b] # -1}) <= 1
  /\ Cardinality({b \in Bouncers : boot[b].pc = "cycle" \/ tickers[b] # -1}) <= 1

\* C13: a request dispatched on a captcha verdict (read from the cache, or
\* resolved by the on-demand query in live mode) ends with 403 whatever its
\* cookie and its path when the captcha client is invalid and the fallback
\* remediation is ban; with a valid client or another fallback the verdict
\* stays captcha: the challenge page unless the cookie is valid or the path
\* is the favicon, and the next handler then.
C13_CaptchaFallback ==
  \A r \in Reqs :
    (/\ req[r].pc = "done"
     /\ \/ req[r].got = CaptchaValue
        \/ /\ config.mode = LiveMode
           /\ req[r].res = "banned"
           /\ req[r].sel = "captcha")
    => /\ req[r].seen \in Challenges
       /\ req[r].outcome =
            IF ~req[r].seen.valid /\ req[r].seen.fallback = "ban" THEN Forbidden
            ELSE IF ~req[r].seen.cookie /\ ~req[r].seen.favicon THEN Challenge
            ELSE Next_

\* a captcha verdict read from the cache was answered 403 although the
\* request carried a valid captcha cookie: the client is invalid, the
\* fallback is ban
C13_Witness ==
  \E r \in Reqs :
    /\ req[r].pc = "done"
    /\ req[r].got = CaptchaValue
    /\ ~req[r].seen.valid
    /\ req[r].seen.fallback = "ban"
    /\ req[r].seen.cookie
    /\ req[r].outcome = Forbidden

\* C14: in stream and alone mode no request ever reaches the on-demand
\* query: whatever the cache and the health state, a request has sent no
\* query to the decision source and is not about to send one.
C14_StreamingNeverQueries ==
  (config.mode \in {StreamMode, AloneMode})
    => \A r \in Reqs : req[r].queries = 0 /\ req[r].pc # "query"

\* in alone mode a request that missed the cache was passed on by the health
\* state alone, with no query sent
C14_Witness ==
  \E r \in Reqs :
    /\ config.mode = AloneMode
    /\ req[r].pc = "done"
    /\ req[r].trust = "untrusted"
    /\ req[r].got = CacheMiss
    /\ req[r].res = "healthy"
    /\ req[r].outcome = Next_
    /\ req[r].queries = 0

\* C15: in none mode handling a request sends no query to the decision
\* source.
C15_NoneNeverQueries ==
  (config.mode = NoneMode)
    => \A r \in Reqs : req[r].queries = 0 /\ req[r].pc # "query"

\* C16: a New call that aborted returned an error and no handler; no New
\* call returns neither a handler nor an error.
C16_AbortReturnsError ==
  \A b \in Bouncers :
    /\ boot[b].pc = "failed" => (boot[b].err /\ ~boot[b].handler)
    /\ boot[b].pc \in {"failed", "ready"} => (boot[b].handler \/ boot[b].err)

\* C17: in alone mode the login of New either stores a token, and only then
\* does New go on to the initial cycle, or it fails: New then returns the
\* error and no handler, and that step runs no cycle and leaves the sentinel,
\* the ticker guard, every ticker and isStartup as they were; a New call that
\* finds the guard unset after it still sets out to start the engine.
C17_LoginFailureAborts ==
  [][\A b \in Bouncers :
       /\ (boot[b].pc = "token" /\ boot'[b].pc = "cycle")
          => crowdsecKey'[b] = "token"
       /\ (boot[b].pc = "token" /\ boot'[b].pc \notin {"token", "cycle"})
          => (/\ boot'[b] = [pc |-> "failed", handler |-> FALSE, err |-> TRUE]
              /\ task'[b].pc = "done"
              /\ task[b].pc = "token"
              /\ ticker' = ticker
              /\ tickers' = tickers
              /\ cache' = cache
              /\ lastCycle' = lastCycle
              /\ isStartup' = isStartup)
       /\ (/\ config.mode = AloneMode
           /\ boot[b].pc = "unborn"
           /\ boot'[b].pc # "unborn"
           /\ ~ticker)
          => boot'[b].pc \in {"token", "failed"}]_vars

\* the login of the first New failed and the second New has started the
\* engine: it is ready and its ticker runs
C17_Witness ==
  /\ config.mode = AloneMode
  /\ boot["b1"] = [pc |-> "failed", handler |-> FALSE, err |-> TRUE]
  /\ task["b1"].pc = "done"
  /\ tickers["b1"] = -1
  /\ boot["b2"].pc = "ready"
  /\ tickers["b2"] # -1
  /\ ticker

\* C18: in live mode, from a non-empty decision list the decision selected
\* is a ban when the list holds one, and the first decision of the list when
\* it holds none.
C18_FirstBanElseFirst ==
  \A r \in Reqs :
    (/\ config.mode = LiveMode
     /\ req[r].pc = "done"
     /\ req[r].queries > 0
     /\ req[r].sel \notin {"-", "ban"})
    => req[r].sel = req[r].first

\* C19: a stream fetch that is set up when the fetch that returned last
\* failed carries startup=true, however many cycles were skipped on the
\* sentinel in between; so does the first fetch of the process, the one set
\* up when no fetch has returned and none is under way.
C19_StartupAfterFailure ==
  [][\A t \in Tasks :
       (/\ task[t].pc = "write"
        /\ task'[t].pc = "fetch"
        /\ \/ lastFetch = "failed"
           \/ /\ lastFetch = "none"
              /\ \A u \in Tasks : task[u].pc # "fetch")
       => task'[t].startup]_vars

\* C20: in every reachable state each decision entry of the cache holds one
\* of the values none, banned and captcha.
C20_CachedValues ==
  \A ip \in IPs :
    cache[ip] # NoEntry
      => cache[ip].val \in {NoBannedValue, BannedValue, CaptchaValue}

\* C21: however the refresh cycles that the ticks spawn interleave, and also
\* when one of them outlives the update interval, at most one of them at a
\* time is past the sentinel check, writing the sentinel or fetching the
\* stream.
C21_OneCycleFetching ==
  Cardinality({w \in Workers : task[w].pc \in {"write", "fetch"}}) <= 1

====
